---- MODULE Spec2Model ----
(***************************************************************************)
(* A model of src/main.cpp: main's construction of the RAII wrappers, the  *)
(* fixed-timestep GameLoop, Update, Draw, and the destruction at return.   *)
(*                                                                         *)
(* Time.  accumulatedTime and secondsPerUpdate are held in units of        *)
(* 1/(UpdatesPerSecond * TicksPerSecond) second, in which one tick of the  *)
(* performance counter is UpdatesPerSecond units and secondsPerUpdate is   *)
(* TicksPerSecond units: both are whole numbers and the arithmetic of      *)
(* lines 344-349 is exact.  Only the difference of two successive reads of *)
(* the counter enters the computation, so a read draws that difference.    *)
(*                                                                         *)
(* Angle.  scene.angle is a float; the model holds it in units of 2^-27    *)
(* rad and rounds every store to a 24-bit significand (ToFloat).  The      *)
(* double operands 1.0 * dt and 2 * M_PI are the nearest whole numbers of  *)
(* units.                                                                  *)
(***************************************************************************)
EXTENDS Integers, Sequences, FiniteSets

\* ------------------------------------------------------------------ bounds
MaxIter == 6
MaxDelta == 4
MaxQueue == 2
MaxUpdateCalls == 400

\* --------------------------------------------------------------- constants
\* SDL_GetPerformanceFrequency(): ticks of the counter per second.
TicksPerSecond == 120
\* secondsPerUpdate = 1.0 / 60.0
UpdatesPerSecond == 60
\* 1.0 * secondsSinceLastUpdate, in units of 2^-27 rad (2236962.13 rounded).
AngleStep == 2236962
\* 2 * M_PI, in units of 2^-27 rad (843314856.53 rounded).
TwoPi == 843314857

\* secondsPerUpdate in time units.
SecondsPerUpdate == TicksPerSecond
\* deltaTickCount / ticksPerSecond in time units.
TickSeconds(d) == UpdatesPerSecond * d
\* The reading difference that is exactly secondsPerUpdate.
FixedDelta == TicksPerSecond \div UpdatesPerSecond
\* The backlog a run that is not observed may build up.
MaxBacklog == 2 * TickSeconds(MaxDelta) + SecondsPerUpdate

Wrappers == {"sdl", "mainWindow", "openGL", "vertexShader", "fragmentShader",
             "shaderProgram", "vertexBuffer", "vertexArray"}
Events == {"quit", "key_q", "key_other", "other"}
LoopPcs == {"gl_init", "gl_check", "gl_read", "gl_update", "gl_draw"}
AfterLoopPcs == {"m_return", "m_exit"}

VARIABLES
    pc,               \* position of main / GameLoop
    res,              \* each wrapper's handle: none, held, released, leaked
    queue,            \* the platform's pending events, oldest first
    isRunning,        \* scene.isRunning
    angle,            \* scene.angle
    accumulatedTime,  \* GameLoop's accumulatedTime
    iter,             \* observation: iterations entered
    updates,          \* observation: calls of Update
    draws,            \* observation: calls of Draw
    updIter,          \* observation: calls of Update in this iteration
    drawIter,         \* observation: calls of Draw in this iteration
    elapsed,          \* observation: ticks read since line 339
    injectIter,       \* observation: iteration of the first quit-type event
    injectLate,       \* observation: it came after that iteration's Update
    drainIter         \* observation: iteration whose Update drained it

vars == <<pc, res, queue, isRunning, angle, accumulatedTime, iter, updates,
          draws, updIter, drawIter, elapsed, injectIter, injectLate, drainIter>>
obs == <<iter, updates, draws, updIter, drawIter, elapsed, injectIter,
         injectLate, drainIter>>
scene == <<isRunning, angle>>

\* ----------------------------------------------------------------- floats
\* The unit in the last place of a float holding x (x in units of 2^-27).
Ulp(x) ==
    IF x >= 2^29 THEN 64
    ELSE IF x >= 2^28 THEN 32
    ELSE IF x >= 2^27 THEN 16
    ELSE IF x >= 2^26 THEN 8
    ELSE IF x >= 2^25 THEN 4
    ELSE IF x >= 2^24 THEN 2
    ELSE 1

\* The store of a double into the float scene.angle: round to nearest, ties
\* to even.
ToFloat(x) ==
    LET u == Ulp(x)
        q == x \div u
        r == x % u
    IN  IF 2 * r > u \/ (2 * r = u /\ q % 2 = 1) THEN (q + 1) * u ELSE q * u

\* ----------------------------------------------------------------- Update
\* Mutant: the inner switch has no case for SDLK_q.
HandleEvent_QuitOnly(running, ev) ==
    IF ev = "quit" THEN FALSE ELSE running

\* Mutant: the outer switch has no case for SDL_QUIT.
HandleEvent_QuitKeyOnly(running, ev) ==
    IF ev = "key_q" THEN FALSE ELSE running

\* Mutant: every key-down clears isRunning (the inner switch is gone).
HandleEvent_AnyKeyQuits(running, ev) ==
    IF ev \in {"quit", "key_q", "key_other"} THEN FALSE ELSE running

\* One event of the switch of lines 301-312.
HandleEvent(running, ev) ==
    IF ev = "quit" THEN FALSE
    ELSE IF ev = "key_q" THEN FALSE
    ELSE running

\* while (SDL_PollEvent(&event)) { switch ... }: every pending event, oldest
\* first.
RECURSIVE DrainEvents(_, _)
DrainEvents(running, q) ==
    IF q = <<>> THEN running
    ELSE DrainEvents(HandleEvent(running, Head(q)), Tail(q))

\* Mutant: the wrap of lines 317-319 is missing.
WrapAngle_NoWrap(a) == a

\* if (scene->angle > 2 * M_PI) scene->angle -= 2 * M_PI;
WrapAngle(a) ==
    IF a > TwoPi THEN ToFloat(a - TwoPi) ELSE a

\* scene->angle += 1.0 * secondsSinceLastUpdate; then the wrap.
AdvanceAngle(a) == WrapAngle(ToFloat(a + AngleStep))

\* SDL_QUIT, or SDL_KEYDOWN of SDLK_q.
QuitType(ev) == ev \in {"quit", "key_q"}
HasQuitType(q) == \E i \in 1..Len(q) : QuitType(q[i])

\* --------------------------------------------------------------- GameLoop
\* Mutant: the test of line 348 is >=.
ShouldUpdate_Geq(acc) == acc >= SecondsPerUpdate

\* Mutant: the test of line 348 compares with zero.
ShouldUpdate_Positive(acc) == acc > 0

\* if (accumulatedTime > secondsPerUpdate)
ShouldUpdate(acc) == acc > SecondsPerUpdate

\* Mutant: Draw sits inside the if, so an iteration with no Update draws
\* nothing.
AfterAccumulate_DrawInsideIf(acc) ==
    IF acc > SecondsPerUpdate THEN "gl_update" ELSE "gl_check"

\* Where GameLoop goes after line 346: into the if of line 348, or past it.
AfterAccumulate(acc) == IF ShouldUpdate(acc) THEN "gl_update" ELSE "gl_draw"

\* Mutant: the if of line 348 is a while (the canonical catch-up loop).
AfterUpdate_While(acc) ==
    IF acc > SecondsPerUpdate THEN "gl_update" ELSE "gl_draw"

\* Mutant: the body of the if ends with continue, skipping Draw.
AfterUpdate_Continue(acc) == "gl_check"

\* Where GameLoop goes after the body of the if: on to Draw.
AfterUpdate(acc) == "gl_draw"

\* Where GameLoop goes after Draw: back to the test of the while.
AfterDraw == "gl_check"

\* -------------------------------------------------------------------- main
\* The destructors of every live wrapper (the end of main, or the unwinding
\* of a thrown std::runtime_error).
Unwind(r) == [w \in Wrappers |-> IF r[w] = "held" THEN "released" ELSE r[w]]

\* FatalError throws and nothing catches it: std::terminate, with or without
\* unwinding the stack first (the implementation chooses).
Fatal(r) ==
    /\ pc' = "m_terminated"
    /\ \E unwind \in BOOLEAN : res' = IF unwind THEN Unwind(r) ELSE r

\* Mutant: main's ShaderProgram is copied from a temporary, whose destructor
\* deletes the program at once.
ProgramBuilt_FromTemporary(r) ==
    [r EXCEPT !["shaderProgram"] = "released",
              !["vertexShader"] = "released",
              !["fragmentShader"] = "released"]

\* ShaderProgram(vertexShaderFilename, fragmentShaderFilename) when nothing
\* fails: the program is linked and the two local shaders are destroyed at
\* the closing brace of the constructor.
ProgramBuilt(r) ==
    [r EXCEPT !["shaderProgram"] = "held",
              !["vertexShader"] = "released",
              !["fragmentShader"] = "released"]

Init ==
    /\ pc = "m_sdl"
    /\ res = [w \in Wrappers |-> "none"]
    /\ queue = <<>>
    /\ isRunning = TRUE
    /\ angle = 0
    /\ accumulatedTime = 0
    /\ iter = 0 /\ updates = 0 /\ draws = 0 /\ updIter = 0 /\ drawIter = 0
    /\ elapsed = 0 /\ injectIter = 0 /\ injectLate = FALSE /\ drainIter = 0

\* SDL sdl;
M_Sdl(ok) ==
    /\ pc = "m_sdl"
    /\ IF ok THEN /\ res' = [res EXCEPT !["sdl"] = "held"]
                  /\ pc' = "m_window"
             ELSE Fatal(res)
    /\ UNCHANGED <<queue, scene, accumulatedTime, obs>>

\* MainWindow mainWindow;
M_Window(ok) ==
    /\ pc = "m_window"
    /\ IF ok THEN /\ res' = [res EXCEPT !["mainWindow"] = "held"]
                  /\ pc' = "m_context"
             ELSE Fatal(res)
    /\ UNCHANGED <<queue, scene, accumulatedTime, obs>>

\* OpenGL openGL(mainWindow);
M_Context(ok) ==
    /\ pc = "m_context"
    /\ IF ok THEN /\ res' = [res EXCEPT !["openGL"] = "held"]
                  /\ pc' = "m_program"
             ELSE Fatal(res)
    /\ UNCHANGED <<queue, scene, accumulatedTime, obs>>

ProgramOutcomes == {"ok", "load_fail", "vs_fail", "fs_fail", "link_fail"}

\* ShaderProgram shaderProgram("shader.vert", "shader.frag"); a handle whose
\* owner's constructor throws is never released (leaked).
M_Program(outcome) ==
    /\ pc = "m_program"
    /\ CASE outcome = "ok" ->
              /\ res' = ProgramBuilt(res)
              /\ pc' = "m_vbuffer"
         [] outcome = "load_fail" -> Fatal(res)
         [] outcome = "vs_fail" ->
              Fatal([res EXCEPT !["vertexShader"] = "leaked"])
         [] outcome = "fs_fail" ->
              Fatal([res EXCEPT !["vertexShader"] = "held",
                                !["fragmentShader"] = "leaked"])
         [] outcome = "link_fail" ->
              Fatal([res EXCEPT !["vertexShader"] = "held",
                                !["fragmentShader"] = "held",
                                !["shaderProgram"] = "leaked"])
    /\ UNCHANGED <<queue, scene, accumulatedTime, obs>>

\* VertexBuffer vertexBuffer(vertices);
M_VertexBuffer ==
    /\ pc = "m_vbuffer"
    /\ res' = [res EXCEPT !["vertexBuffer"] = "held"]
    /\ pc' = "m_varray"
    /\ UNCHANGED <<queue, scene, accumulatedTime, obs>>

\* VertexArray vertexArray([&]() { ... });
M_VertexArray ==
    /\ pc = "m_varray"
    /\ res' = [res EXCEPT !["vertexArray"] = "held"]
    /\ pc' = "m_scene"
    /\ UNCHANGED <<queue, scene, accumulatedTime, obs>>

\* Scene scene { ... }: the default member initializers of lines 287, 294.
M_Scene ==
    /\ pc = "m_scene"
    /\ isRunning' = TRUE
    /\ angle' = 0
    /\ pc' = "gl_init"
    /\ UNCHANGED <<res, queue, accumulatedTime, obs>>

\* return 0: the destructors, in reverse order of construction.
M_Return ==
    /\ pc = "m_return"
    /\ res' = Unwind(res)
    /\ pc' = "m_exit"
    /\ UNCHANGED <<queue, scene, accumulatedTime, obs>>

\* ------------------------------------------------------------- environment
\* The platform queues an event.  With track it is observed: the iteration
\* it falls in (the coming one when the loop is at its test or not yet
\* begun), and whether that iteration's Update is already over.
Inject(track, ev) ==
    /\ res["sdl"] = "held"
    /\ pc # "m_terminated"
    /\ Len(queue) < MaxQueue
    /\ queue' = Append(queue, ev)
    /\ IF track /\ QuitType(ev) /\ injectIter = 0
       THEN /\ injectIter' = IF pc \in {"gl_read", "gl_update", "gl_draw"}
                             THEN iter ELSE iter + 1
            /\ injectLate' = (pc = "gl_draw")
       ELSE UNCHANGED <<injectIter, injectLate>>
    /\ UNCHANGED <<pc, res, scene, accumulatedTime, iter, updates, draws,
                   updIter, drawIter, elapsed, drainIter>>

\* ---------------------------------------------------------------- GameLoop
\* In every action of GameLoop, track says whether the run is observed: an
\* unobserved run leaves the observation variables and the animation angle
\* (which nothing in GameLoop or Update branches on) where they are, so an
\* unbounded run has finitely many states.

\* Lines 337-340.
GL_Init ==
    /\ pc = "gl_init"
    /\ accumulatedTime' = 0
    /\ pc' = "gl_check"
    /\ UNCHANGED <<res, queue, scene, obs>>

\* while (scene->isRunning)
GL_Check(track) ==
    /\ pc = "gl_check"
    /\ IF isRunning
       THEN /\ track => iter < MaxIter
            /\ pc' = "gl_read"
            /\ IF track
               THEN iter' = iter + 1 /\ updIter' = 0 /\ drawIter' = 0
               ELSE UNCHANGED <<iter, updIter, drawIter>>
       ELSE /\ pc' = "m_return"
            /\ UNCHANGED <<iter, updIter, drawIter>>
    /\ UNCHANGED <<res, queue, scene, accumulatedTime, updates, draws,
                   elapsed, injectIter, injectLate, drainIter>>

\* Lines 343-348: the counter has advanced by d ticks since the last read.
GL_ReadClock(track, d) ==
    /\ pc = "gl_read"
    /\ track \/ accumulatedTime + TickSeconds(d) <= MaxBacklog
    /\ accumulatedTime' = accumulatedTime + TickSeconds(d)
    /\ pc' = AfterAccumulate(accumulatedTime')
    /\ elapsed' = IF track THEN elapsed + d ELSE elapsed
    /\ UNCHANGED <<res, queue, scene, iter, updates, draws, updIter,
                   drawIter, injectIter, injectLate, drainIter>>

\* Lines 349-350: accumulatedTime -= secondsPerUpdate; Update(scene, ...).
GL_Update(track) ==
    /\ pc = "gl_update"
    /\ accumulatedTime' = accumulatedTime - SecondsPerUpdate
    /\ isRunning' = DrainEvents(isRunning, queue)
    /\ queue' = <<>>
    /\ angle' = IF track THEN AdvanceAngle(angle) ELSE angle
    /\ pc' = AfterUpdate(accumulatedTime')
    /\ IF track
       THEN /\ updates' = updates + 1
            /\ updIter' = updIter + 1
            /\ drainIter' = IF drainIter = 0 /\ HasQuitType(queue)
                            THEN iter ELSE drainIter
       ELSE UNCHANGED <<updates, updIter, drainIter>>
    /\ UNCHANGED <<res, iter, draws, drawIter, elapsed, injectIter,
                   injectLate>>

\* Line 353: Draw(mainWindow, *scene); the scene is passed by const reference.
GL_Draw(track) ==
    /\ pc = "gl_draw"
    /\ pc' = AfterDraw
    /\ IF track
       THEN draws' = draws + 1 /\ drawIter' = drawIter + 1
       ELSE UNCHANGED <<draws, drawIter>>
    /\ UNCHANGED <<res, queue, scene, accumulatedTime, iter, updates,
                   updIter, elapsed, injectIter, injectLate, drainIter>>

MainStep ==
    \/ \E ok \in BOOLEAN : M_Sdl(ok)
    \/ \E ok \in BOOLEAN : M_Window(ok)
    \/ \E ok \in BOOLEAN : M_Context(ok)
    \/ \E outcome \in ProgramOutcomes : M_Program(outcome)
    \/ M_VertexBuffer
    \/ M_VertexArray
    \/ M_Scene
    \/ GL_Init
    \/ M_Return

Next ==
    \/ MainStep
    \/ \E ev \in Events : Inject(TRUE, ev)
    \/ GL_Check(TRUE)
    \/ \E d \in 0..MaxDelta : GL_ReadClock(TRUE, d)
    \/ GL_Update(TRUE)
    \/ GL_Draw(TRUE)

Spec == Init /\ [][Next]_vars

\* The clock of the timestep test: every read of the counter finds it exactly
\* secondsPerUpdate later than the read before.
NextFixed ==
    \/ MainStep
    \/ \E ev \in Events : Inject(TRUE, ev)
    \/ GL_Check(TRUE)
    \/ GL_ReadClock(TRUE, FixedDelta)
    \/ GL_Update(TRUE)
    \/ GL_Draw(TRUE)

SpecFixed == Init /\ [][NextFixed]_vars

\* A run of any length, not observed.  GameLoop and main take their steps
\* (weak fairness: the thread runs), and the counter keeps advancing: again
\* and again a read finds it later than the read before.
LoopStep ==
    \/ GL_Check(FALSE)
    \/ \E d \in 0..MaxDelta : GL_ReadClock(FALSE, d)
    \/ GL_Update(FALSE)
    \/ GL_Draw(FALSE)

ClockAdvances == \E d \in 1..MaxDelta : GL_ReadClock(FALSE, d)

NextLive ==
    \/ MainStep
    \/ \E ev \in Events : Inject(FALSE, ev)
    \/ LoopStep

SpecLive ==
    /\ Init
    /\ [][NextLive]_vars
    /\ WF_vars(MainStep)
    /\ WF_vars(LoopStep)
    /\ SF_vars(ClockAdvances)

\* Update called over and over on a constructed scene, with the loop's dt.
InitCalls ==
    /\ pc = "test"
    /\ res = ProgramBuilt([w \in Wrappers |-> "held"])
    /\ queue = <<>>
    /\ isRunning = TRUE
    /\ angle = 0
    /\ accumulatedTime = 0
    /\ iter = 0 /\ updates = 0 /\ draws = 0 /\ updIter = 0 /\ drawIter = 0
    /\ elapsed = 0 /\ injectIter = 0 /\ injectLate = FALSE /\ drainIter = 0

\* Update(scene, secondsPerUpdate), the whole of lines 297-320.
CallUpdate ==
    /\ pc = "test"
    /\ updates < MaxUpdateCalls
    /\ isRunning' = DrainEvents(isRunning, queue)
    /\ queue' = <<>>
    /\ angle' = AdvanceAngle(angle)
    /\ updates' = updates + 1
    /\ UNCHANGED <<pc, res, accumulatedTime, iter, draws, updIter, drawIter,
                   elapsed, injectIter, injectLate, drainIter>>

NextCalls ==
    \/ CallUpdate
    \/ \E ev \in Events : Inject(FALSE, ev)

SpecCalls == InitCalls /\ [][NextCalls]_vars

\* ------------------------------------------------------------------ claims
InLoop == pc \in {"gl_check", "gl_read", "gl_update", "gl_draw"}
Returned == pc \in AfterLoopPcs

\* C1: once an Update has drained a quit-type event, isRunning is false when
\* it returns; no Update follows; the next test of the while leaves the loop
\* without a Draw; and after GameLoop has returned neither Update nor Draw is
\* invoked again.
C1_QuitStopsLoop ==
    /\ [](drainIter > 0 => ~isRunning)
    /\ [][drainIter > 0 => updates' = updates]_vars
    /\ [][(drainIter > 0 /\ pc = "gl_check")
            => (pc' \in {"gl_check", "m_return"} /\ draws' = draws)]_vars
    /\ [][Returned => (Returned' /\ updates' = updates /\ draws' = draws)]_vars

\* An Update drained a quit-type event and GameLoop has returned.
C1_Witness ==
    /\ pc = "m_return"
    /\ drainIter > 0
    /\ injectIter > 0
    /\ ~isRunning

\* C6: an iteration entered with isRunning true draws exactly once, and after
\* its Update if it has one: no Draw has happened while the iteration is at
\* or before its Update, and exactly one when the loop is back at its test.
C6_OneDrawPerIteration ==
    /\ pc \in {"gl_read", "gl_update", "gl_draw"} => drawIter = 0
    /\ (pc = "gl_check" /\ iter >= 1) => drawIter = 1
    /\ (pc \in {"gl_check", "m_return", "m_exit"}) => draws = iter
    /\ pc \in {"gl_read", "gl_update", "gl_draw"} => draws = iter - 1

\* Two iterations are over, one with an Update and one without.
C6_Witness ==
    /\ pc = "gl_check"
    /\ iter = 2
    /\ updates = 1
    /\ draws = 2

\* C7: an iteration calls Update at most once, and the call takes exactly one
\* secondsPerUpdate off accumulatedTime, whatever is left.
C7_AtMostOneUpdate ==
    /\ [](updIter <= 1)
    /\ [][updates' # updates
            => (updates' = updates + 1
                /\ accumulatedTime' = accumulatedTime - SecondsPerUpdate)]_vars

\* An iteration has had its one Update and a backlog of more than one
\* secondsPerUpdate is still in accumulatedTime.
C7_Witness ==
    /\ pc = "gl_draw"
    /\ updIter = 1
    /\ accumulatedTime > SecondsPerUpdate

\* C8: isRunning changes only in Update, only from true to false, and only
\* when the drained events hold a quit-type event.
C8_OnlyUpdateClearsRunning ==
    [][isRunning' # isRunning
         => (pc = "gl_update" /\ isRunning /\ ~isRunning'
             /\ HasQuitType(queue))]_vars

\* An Update has run, no quit-type event was ever queued, and isRunning is
\* still true.
C8_Witness ==
    /\ pc = "gl_draw"
    /\ updIter = 1
    /\ injectIter = 0
    /\ queue = <<>>
    /\ isRunning
    /\ updates = 1
    /\ iter = 1

\* C9: accumulatedTime is never negative, and the simulated time (Update
\* calls times secondsPerUpdate) never exceeds the time read off the counter
\* since GameLoop began.
C9_AccumulatorNonNegative ==
    /\ accumulatedTime >= 0
    /\ updates * SecondsPerUpdate <= TickSeconds(elapsed)
    /\ InLoop => accumulatedTime + updates * SecondsPerUpdate
                   = TickSeconds(elapsed)

\* Updates have run and accumulatedTime is down to one tick's worth, the least
\* an Update can leave.
C9_Witness ==
    /\ InLoop
    /\ updates >= 2
    /\ accumulatedTime = TickSeconds(1)

\* C2 as stated: a quit-type event queued in iteration k, before that
\* iteration's Update, makes GameLoop stop after exactly k draws.
C2_Original ==
    (Returned /\ injectIter >= 1 /\ ~injectLate) => draws = injectIter

\* C2 as amended: GameLoop stops after exactly as many draws as the number j
\* of the iteration whose Update drains the event; j is at least k, and more
\* than k when the event comes after iteration k's Update.
C2_DrawsUntilDrained ==
    (Returned /\ injectIter >= 1)
        => /\ draws = drainIter
           /\ drainIter >= injectIter
           /\ injectLate => drainIter > injectIter

\* The event came in iteration 1 before any Update, iterations 1 and 2 had
\* no Update, and GameLoop returned after 3 draws.
C2_Witness ==
    /\ Returned
    /\ injectIter = 1
    /\ ~injectLate
    /\ drainIter = 3
    /\ draws = 3

\* C3 as stated: with the counter exactly secondsPerUpdate later at every
\* read, every iteration, the first included, has exactly one Update.
C3_Original ==
    (pc = "gl_check" /\ iter >= 1) => updIter = 1

\* C3 as amended: the first iteration has no Update (accumulatedTime equals
\* secondsPerUpdate and the test is strict), every later one exactly one.
C3_OneUpdateAfterFirst ==
    /\ (pc = "gl_check" /\ iter >= 1)
           => updIter = (IF iter = 1 THEN 0 ELSE 1)
    /\ (pc = "gl_check" /\ iter >= 1) => updates = iter - 1

\* Three iterations are over under the exact clock, with two Updates.
C3_Witness ==
    /\ pc = "gl_check"
    /\ iter = 3
    /\ updates = 2
    /\ updIter = 1

\* C4: after every call of Update, 0 <= angle < 2 pi.
C4_AngleInRange ==
    /\ angle >= 0
    /\ angle < TwoPi

\* The angle has gone round once: the 377th call wrapped it to below one
\* step.
C4_Witness ==
    /\ updates = 377
    /\ angle < AngleStep

GpuWrappers == {"vertexShader", "fragmentShader", "shaderProgram",
                "vertexBuffer", "vertexArray"}

\* C5 as stated: while GameLoop executes, every owning GPU wrapper (shaders,
\* program, buffer, vertex array) still holds its handle.
C5_Original ==
    pc \in LoopPcs => \A w \in GpuWrappers : res[w] = "held"

\* C5 as amended: the program, the buffer and the vertex array hold their
\* handles from before GameLoop begins until after it has returned; the two
\* shaders have released theirs before GameLoop begins.
C5_LoopWrappersOutliveLoop ==
    /\ pc \in LoopPcs \cup {"m_return"}
         => /\ \A w \in {"shaderProgram", "vertexBuffer", "vertexArray"} :
                  res[w] = "held"
            /\ \A w \in {"vertexShader", "fragmentShader"} :
                  res[w] = "released"
    /\ (\E w \in {"shaderProgram", "vertexBuffer", "vertexArray"} :
            res[w] = "released") => pc \in {"m_exit", "m_terminated"}

\* GameLoop is drawing its third frame with the program held and the vertex
\* shader released.
C5_Witness ==
    /\ pc = "gl_draw"
    /\ draws = 2
    /\ res["shaderProgram"] = "held"
    /\ res["vertexShader"] = "released"

\* C10: with the counter advancing again and again, a quit-type event pending
\* while GameLoop runs leads to GameLoop's return; and events leave the queue
\* only in Update, in an iteration whose accumulatedTime exceeded
\* secondsPerUpdate.
C10_PendingQuitReturns ==
    /\ (InLoop /\ HasQuitType(queue)) ~> Returned
    /\ [][Len(queue') < Len(queue)
            => (pc = "gl_update" /\ accumulatedTime > SecondsPerUpdate)]_vars

\* GameLoop has returned in a run of any length, after an Update cleared
\* isRunning.
C10_Witness ==
    /\ pc = "m_return"
    /\ ~isRunning
    /\ queue = <<>>
    /\ accumulatedTime > 0

====
